---- MODULE Spec2Model ----
(***************************************************************************)
(* LeaseHawk: property matching and opportunity scoring.                   *)
(*                                                                         *)
(* Conventions of the model                                                *)
(*   - Python None / SQL NULL is the value None (-1); every modelled field *)
(*     that is present is a non-negative number.                           *)
(*   - Scores are Python floats on a 0-100 scale.  They are kept here as   *)
(*     fixed-point integers in hundredths of a point (Scale = 100), so     *)
(*     100.0 is 10000 and 92.5 is 9250.                                    *)
(*   - Times are in ticks, TicksPerDay ticks to a day; timedelta.days is   *)
(*     the floor of the difference in days.                                *)
(*   - Annual costs are in dollars, fees and earnings in half-cents, risk  *)
(*     scores in tenths.                                                   *)
(*   - A query without ORDER BY returns its rows in any order.             *)
(***************************************************************************)
EXTENDS Integers, Sequences, FiniteSets, TLC

VARIABLES
    \* PropertyMatcher: self.weights, and a call's arguments and outcome
    matcher_weights, prospectus, properties, min_score, result,
    \* the Notion databases (external source) and the local database tables
    notion_prospectuses, notion_properties,
    db_prospectuses, db_properties, db_matches,
    \* the clock and the last response of an API handler
    now, response,
    \* load_all_gsa.py: the file data/prospectuses/<filename> and the
    \* download_pdf call for it that is running or was last made
    disk, download

matcherVars == <<matcher_weights, prospectus, properties, min_score, result>>

storeVars == <<notion_prospectuses, notion_properties,
               db_prospectuses, db_properties, db_matches, now, response>>

downloadVars == <<disk, download>>

vars == <<matcher_weights, prospectus, properties, min_score, result,
          notion_prospectuses, notion_properties,
          db_prospectuses, db_properties, db_matches, now, response,
          disk, download>>

----------------------------------------------------------------------------
(* Bounds and basic values *)

None == -1

Scale == 100

MaxSqft == 3

MaxParking == 2

MaxRate == 2

MaxProps == 3

Max(a, b) == IF a >= b THEN a ELSE b

Min(a, b) == IF a <= b THEN a ELSE b

Abs(a) == IF a < 0 THEN 0 - a ELSE a

\* Python truthiness of an optional number: None and 0 are falsy
Truthy(x) == x # None /\ x # 0

----------------------------------------------------------------------------
(* PropertyMatcher *)

\* the value __init__ gives self.weights, in percent
weights == [size |-> 35, location |-> 30, parking |-> 20, price |-> 15]

LocationPlaceholder == 75

DefaultMinScore == 60

NeutralScore == 50

\* a bug that would forget the max(0, ...) clamp
SizeScoreUnclamped(p, c) ==
    100 * Scale - (Abs(c.available_sqft - p.estimated_nusf) * 100 * Scale) \div p.estimated_nusf

\* a bug that would forget the abs() of line 20
SizeScoreSigned(p, c) ==
    LET size_diff == ((c.available_sqft - p.estimated_nusf) * 100 * Scale) \div p.estimated_nusf
    IN  Max(0, 100 * Scale - size_diff)

SizeScore(p, c) ==
    LET size_diff == (Abs(c.available_sqft - p.estimated_nusf) * 100 * Scale) \div p.estimated_nusf
    IN  Max(0, 100 * Scale - size_diff)

\* a bug that would forget the min(100, ...) cap of line 26
ParkingScoreUncapped(p, c) ==
    IF Truthy(p.parking_spaces) /\ Truthy(c.parking_spaces)
    THEN (c.parking_spaces * 100 * Scale) \div p.parking_spaces
    ELSE NeutralScore * Scale

ParkingScore(p, c) ==
    IF Truthy(p.parking_spaces) /\ Truthy(c.parking_spaces)
    THEN Min(100 * Scale, (c.parking_spaces * 100 * Scale) \div p.parking_spaces)
    ELSE NeutralScore * Scale

PriceScore(p, c) ==
    IF Truthy(c.asking_rent_per_sqft) /\ Truthy(p.rental_rate_per_nusf)
    THEN IF c.asking_rent_per_sqft <= p.rental_rate_per_nusf
         THEN 100 * Scale
         ELSE LET overage == ((c.asking_rent_per_sqft - p.rental_rate_per_nusf) * 100 * Scale)
                                 \div p.rental_rate_per_nusf
              IN  Max(0, 100 * Scale - overage)
    ELSE NeutralScore * Scale

LocationScore(p, c) == LocationPlaceholder * Scale

\* The exception line 20 raises, "none" when it does not raise
ScoreError(p, c) ==
    IF c.available_sqft = None \/ p.estimated_nusf = None THEN "TypeError"
    ELSE IF p.estimated_nusf = 0 THEN "ZeroDivisionError"
    ELSE "none"

calculate_match_score(p, c) ==
    LET size     == SizeScore(p, c)
        parking  == ParkingScore(p, c)
        price    == PriceScore(p, c)
        location == LocationScore(p, c)
    IN  [total_score    |-> (size * matcher_weights.size + location * matcher_weights.location
                             + parking * matcher_weights.parking
                             + price * matcher_weights.price) \div 100,
         size_score     |-> size,
         parking_score  |-> parking,
         price_score    |-> price,
         location_score |-> location]

\* a bug that would sort unstably, putting a match before its equals
RECURSIVE InsertByTotalDescUnstable(_, _)
InsertByTotalDescUnstable(sorted, m) ==
    IF sorted = <<>> THEN <<m>>
    ELSE IF Head(sorted).scores.total_score > m.scores.total_score
         THEN <<Head(sorted)>> \o InsertByTotalDescUnstable(Tail(sorted), m)
         ELSE <<m>> \o sorted

\* list.sort(key=total_score, reverse=True): stable, equal keys keep input order
RECURSIVE InsertByTotalDesc(_, _)
InsertByTotalDesc(sorted, m) ==
    IF sorted = <<>> THEN <<m>>
    ELSE IF Head(sorted).scores.total_score >= m.scores.total_score
         THEN <<Head(sorted)>> \o InsertByTotalDesc(Tail(sorted), m)
         ELSE <<m>> \o sorted

\* a bug that would leave the matches in input order
SortOmitted(ms) == ms

RECURSIVE SortByTotalDesc(_)
SortByTotalDesc(ms) ==
    IF ms = <<>> THEN <<>>
    ELSE InsertByTotalDesc(SortByTotalDesc(SubSeq(ms, 1, Len(ms) - 1)), ms[Len(ms)])

\* a bug that would drop the candidates scoring exactly min_score
MeetsThresholdStrict(scores, ms) == scores.total_score > ms * Scale

MeetsThreshold(scores, ms) == scores.total_score >= ms * Scale

\* the loop of lines 58-64: the matches in input order
RECURSIVE CollectMatches(_, _, _)
CollectMatches(p, props, ms) ==
    IF props = <<>> THEN <<>>
    ELSE LET scores == calculate_match_score(p, Head(props))
             rest   == CollectMatches(p, Tail(props), ms)
         IN  IF MeetsThreshold(scores, ms)
             THEN <<[property |-> Head(props), scores |-> scores]>> \o rest
             ELSE rest

\* the first exception the loop meets, "none" when the call returns
FindError(p, props) ==
    IF \E i \in 1..Len(props) : ScoreError(p, props[i]) # "none"
    THEN LET i == CHOOSE j \in 1..Len(props) :
                      /\ ScoreError(p, props[j]) # "none"
                      /\ \A k \in 1..(j - 1) : ScoreError(p, props[k]) = "none"
         IN  ScoreError(p, props[i])
    ELSE "none"

find_matches(p, props, ms) ==
    IF FindError(p, props) # "none"
    THEN [raised |-> FindError(p, props), matches |-> <<>>]
    ELSE [raised |-> "none", matches |-> SortByTotalDesc(CollectMatches(p, props, ms))]

----------------------------------------------------------------------------
(* Clock *)

TicksPerDay == 2

Now0 == 4

\* (expiration - now).days: timedelta.days floors towards minus infinity
DaysUntil(expiration, t) == (expiration - t) \div TicksPerDay

NoResponse == [kind |-> "none"]

\* the store at rest, for the specifications that do not use it
\* no download_pdf call made yet, nothing on disk
NoDownload ==
    [pc |-> "idle", retries |-> 0, attempt |-> 0, existed |-> FALSE,
     requests |-> 0, failures |-> 0, sleeps |-> 0, returned |-> FALSE, calls |-> 0]

DownloadIdle ==
    /\ disk = "absent"
    /\ download = NoDownload

StoreIdle ==
    /\ notion_prospectuses = <<>>
    /\ notion_properties = <<>>
    /\ db_prospectuses = <<>>
    /\ db_properties = <<>>
    /\ db_matches = <<>>
    /\ now = Now0
    /\ response = NoResponse

----------------------------------------------------------------------------
(* Inputs of the matcher *)

OptionalUpTo(n) == {None} \cup (0..n)

ProspectusInputs ==
    [estimated_nusf       : OptionalUpTo(MaxSqft),
     parking_spaces       : OptionalUpTo(MaxParking),
     rental_rate_per_nusf : OptionalUpTo(MaxRate)]

\* one candidate, every field present or absent
PropertyInputs ==
    [id                   : {1},
     available_sqft       : OptionalUpTo(MaxSqft),
     parking_spaces       : OptionalUpTo(MaxParking),
     asking_rent_per_sqft : OptionalUpTo(MaxRate)]

\* several candidates: identifiers in any order, areas vary, no parking or rent data
ListProperty(i, a) ==
    [id |-> i, available_sqft |-> a, parking_spaces |-> None, asking_rent_per_sqft |-> None]

ShortLists == {<<>>} \cup {<<c>> : c \in PropertyInputs}

LongLists ==
    UNION {{[k \in 1..n |-> ListProperty(ids[k], areas[k])] :
               ids \in {f \in [1..n -> 1..n] : \A x, y \in 1..n : x # y => f[x] # f[y]},
               areas \in [1..n -> 0..MaxSqft]} : n \in 2..MaxProps}

\* the requirements the long lists are matched against
ListProspectusInputs ==
    [estimated_nusf       : OptionalUpTo(MaxSqft),
     parking_spaces       : {None},
     rental_rate_per_nusf : {None}]

MinScores == {0, DefaultMinScore, 90}

NotCalled == [raised |-> "not called", matches |-> <<>>]

InitMatcher ==
    /\ \/ prospectus \in ProspectusInputs /\ properties \in ShortLists
       \/ prospectus \in ListProspectusInputs /\ properties \in LongLists
    /\ min_score = DefaultMinScore
    /\ result = NotCalled
    /\ matcher_weights = weights
    /\ DownloadIdle
    /\ StoreIdle

\* a bug that would filter and sort the caller's list in place
FindMatchesInPlace ==
    /\ result = NotCalled
    /\ \E ms \in MinScores :
        /\ min_score' = ms
        /\ result' = find_matches(prospectus, properties, ms)
        /\ properties' = [k \in 1..Len(result'.matches) |-> result'.matches[k].property]
    /\ UNCHANGED <<matcher_weights, prospectus>>
    /\ UNCHANGED storeVars
    /\ UNCHANGED downloadVars

\* lines 54-68: the call reads its arguments and self.weights, builds a new
\* list and sorts that list; it assigns to nothing else
FindMatches ==
    /\ result = NotCalled
    /\ \E ms \in MinScores :
        /\ min_score' = ms
        /\ result' = find_matches(prospectus, properties, ms)
    /\ UNCHANGED <<matcher_weights, prospectus, properties>>
    /\ UNCHANGED storeVars
    /\ UNCHANGED downloadVars

NextMatcher == FindMatches

SpecMatcher == InitMatcher /\ [][NextMatcher]_vars

----------------------------------------------------------------------------
(* PropertyMatcher: claims *)

Returned == result # NotCalled /\ result.raised = "none"

TotalOf(c) == calculate_match_score(prospectus, c).total_score

InputIndexes == 1..Len(properties)

MatchIndexes == 1..Len(result.matches)

\* C1: when find_matches returns for a requirement with a positive required
\* area, the returned entries are exactly the candidates whose total is
\* >= min_score, each once, each with its calculate_match_score scores.
C1_ExactlyThoseAtOrAboveThreshold ==
    (Returned /\ prospectus.estimated_nusf > 0) =>
        /\ \A i \in InputIndexes :
              Cardinality({j \in MatchIndexes : result.matches[j].property = properties[i]})
                  = IF TotalOf(properties[i]) >= min_score * Scale THEN 1 ELSE 0
        /\ \A j \in MatchIndexes :
              /\ \E i \in InputIndexes : properties[i] = result.matches[j].property
              /\ result.matches[j].scores.total_score >= min_score * Scale

\* a call that kept one candidate scoring exactly min_score and dropped another
C1_Witness ==
    /\ Returned /\ prospectus.estimated_nusf > 0
    /\ \E i \in InputIndexes : TotalOf(properties[i]) = min_score * Scale
    /\ Len(result.matches) = 1

\* C2: the returned list is ordered by total score descending.
C2_SortedDescending ==
    Returned =>
        \A j \in MatchIndexes :
            j + 1 \in MatchIndexes =>
                result.matches[j].scores.total_score >= result.matches[j + 1].scores.total_score

\* a call whose input was in ascending order of total, so the sort reordered it
C2_Witness ==
    /\ Returned /\ Len(result.matches) = MaxProps /\ Len(properties) = MaxProps
    /\ \A i \in InputIndexes :
          i + 1 \in InputIndexes => TotalOf(properties[i]) < TotalOf(properties[i + 1])

InScoreRange(x) == 0 <= x /\ x <= 100 * Scale

C4_UnscorableDoesNotRaise ==
    (result # NotCalled /\ prospectus.estimated_nusf \in {None, 0}) => result.raised = "none"

EqualTotals(j, k) ==
    result.matches[j].scores.total_score = result.matches[k].scores.total_score

\* the position of a returned candidate in the input list
InputPosition(c) == CHOOSE i \in InputIndexes : properties[i] = c

\* C17 as stated: entries with equal total are ordered by candidate
\* identifier ascending, whatever the order of the input list.
C17_TiesByIdAscending ==
    Returned =>
        \A j, k \in MatchIndexes :
            (j < k /\ EqualTotals(j, k))
                => result.matches[j].property.id < result.matches[k].property.id

\* C17 amended: entries with equal total keep the relative order their
\* candidates had in the input list.
C17_TiesKeepInputOrder ==
    Returned =>
        \A j, k \in MatchIndexes :
            (j < k /\ EqualTotals(j, k))
                => InputPosition(result.matches[j].property)
                       < InputPosition(result.matches[k].property)

\* two candidates of different areas and equal total came back with the
\* higher identifier first, as in the input, after a better one that the
\* sort moved to the front
C17_Witness ==
    /\ Returned /\ Len(result.matches) = 3
    /\ EqualTotals(2, 3) /\ ~EqualTotals(1, 2)
    /\ result.matches[2].property.id > result.matches[3].property.id
    /\ result.matches[2].property.available_sqft # result.matches[3].property.available_sqft
    /\ InputPosition(result.matches[1].property) = 3

\* C18: a call of find_matches (and the calls of calculate_match_score it
\* makes) leaves the requirement record, every candidate record, the
\* candidate list with its order and the matcher's weights unchanged, and
\* persists nothing.
C18_MatcherHasNoSideEffects ==
    [][result' # result =>
          /\ prospectus' = prospectus
          /\ properties' = properties
          /\ matcher_weights' = matcher_weights
          /\ db_prospectuses' = db_prospectuses
          /\ db_properties' = db_properties
          /\ db_matches' = db_matches]_vars

\* a call returned every candidate in an order other than the input's: the
\* returned list was sorted while the input list is as it was given
C18_Witness ==
    /\ Returned /\ Len(properties) = MaxProps /\ Len(result.matches) = MaxProps
    /\ result.matches[1].property # properties[1]
    /\ result.matches[1].property = properties[MaxProps]
    /\ matcher_weights = weights
    /\ db_matches = <<>>

\* the distance of a candidate's area from the required area
AreaDistance(c) == Abs(c.available_sqft - prospectus.estimated_nusf)

SameButArea(c, d) ==
    c.parking_spaces = d.parking_spaces /\ c.asking_rent_per_sqft = d.asking_rent_per_sqft

\* C19: for a positive required area, of two returned candidates that differ
\* only in available area the one whose area is farther from the required
\* area never has the higher total.
C19_TotalMonotoneInAreaDistance ==
    (Returned /\ prospectus.estimated_nusf > 0) =>
        \A j, k \in MatchIndexes :
            (/\ SameButArea(result.matches[j].property, result.matches[k].property)
             /\ AreaDistance(result.matches[j].property) > AreaDistance(result.matches[k].property))
                => result.matches[j].scores.total_score <= result.matches[k].scores.total_score

\* three candidates around a required area of 2: one below and one above at
\* distance 1 with equal totals, and one at distance 2 with a lower total
C19_Witness ==
    /\ Returned /\ prospectus.estimated_nusf = 2 /\ Len(result.matches) = 3
    /\ \E j, k, l \in MatchIndexes :
          /\ result.matches[j].property.available_sqft = 1
          /\ result.matches[k].property.available_sqft = 3
          /\ result.matches[l].property.available_sqft = 0
          /\ EqualTotals(j, k)
          /\ result.matches[l].scores.total_score < result.matches[j].scores.total_score

\* C20: when the requirement specifies a parking count > 0 and the candidate
\* specifies any count >= 0, the parking score is
\* min(100, candidate / requirement x 100), not the neutral default.
C20_ParkingScoreWhenBothSpecified ==
    Returned =>
        \A j \in MatchIndexes :
            (/\ prospectus.parking_spaces # None /\ prospectus.parking_spaces > 0
             /\ result.matches[j].property.parking_spaces # None)
                => result.matches[j].scores.parking_score
                       = Min(100 * Scale,
                             (result.matches[j].property.parking_spaces * 100 * Scale)
                                 \div prospectus.parking_spaces)

----------------------------------------------------------------------------
(* The matcher on realistic magnitudes: areas in square feet, rates in cents *)

ExampleProspectusInputs ==
    [estimated_nusf       : {40000, 50000, 60000},
     parking_spaces       : {None, 200, 210},
     rental_rate_per_nusf : {None, 2400, 2500}]

ExamplePropertyInputs ==
    [id                   : {1},
     available_sqft       : {48000, 50000, 52000},
     parking_spaces       : {0, 200, 210},
     asking_rent_per_sqft : {None, 2450, 2600}]

InitExample ==
    /\ prospectus \in ExampleProspectusInputs
    /\ \E c \in ExamplePropertyInputs : properties = <<c>>
    /\ min_score = DefaultMinScore
    /\ result = NotCalled
    /\ matcher_weights = weights
    /\ DownloadIdle
    /\ StoreIdle

NextExample == FindMatches

SpecExample == InitExample /\ [][NextExample]_vars

\* Requirement{required_area=50000, max_rate=25.00, parking=200} against
\* Candidate{available_area=48000, asking_rate=24.50, parking=210}
ExampleScored ==
    /\ Returned
    /\ prospectus = [estimated_nusf |-> 50000, parking_spaces |-> 200,
                     rental_rate_per_nusf |-> 2500]
    /\ properties = <<[id |-> 1, available_sqft |-> 48000, parking_spaces |-> 210,
                       asking_rent_per_sqft |-> 2450]>>
    /\ Len(result.matches) = 1

ExampleSubScores ==
    LET scores == result.matches[1].scores
    IN  /\ scores.size_score = 96 * Scale
        /\ scores.price_score = 100 * Scale
        /\ scores.parking_score = 100 * Scale
        /\ scores.location_score = 75 * Scale

\* the total is within 0.5 of tenths / 10
TotalNear(tenths) ==
    Abs(result.matches[1].scores.total_score * 10 - tenths * Scale) <= 5 * Scale

\* C21 as stated: for the example the sub-scores are 96, 100, 100 (capped) and
\* 75, the weights are 0.35, 0.30, 0.20, 0.15, and the weighted total is
\* approximately 93.3.
C21_ExampleTotal933 ==
    ExampleScored =>
        /\ ExampleSubScores
        /\ matcher_weights = [size |-> 35, location |-> 30, parking |-> 20, price |-> 15]
        /\ TotalNear(933)

\* C21 amended: the same sub-scores and weights, and the weighted total is
\* 0.35 x 96 + 0.30 x 75 + 0.20 x 100 + 0.15 x 100 = 91.1.
C21_ExampleTotal911 ==
    ExampleScored =>
        /\ ExampleSubScores
        /\ matcher_weights = [size |-> 35, location |-> 30, parking |-> 20, price |-> 15]
        /\ matcher_weights.size + matcher_weights.location
               + matcher_weights.parking + matcher_weights.price = 100
        /\ result.matches[1].scores.total_score = (911 * Scale) \div 10

C21_Witness ==
    /\ ExampleScored
    /\ result.matches[1].scores.parking_score = 100 * Scale
    /\ result.matches[1].scores.total_score > 90 * Scale

----------------------------------------------------------------------------
(* Local database, Notion source, matching handlers *)

MaxMatches == 4

MaxClockSkew == 1

HighValueScore == 80

HighValueCost == 2000000

CriticalDays == 180

CriticalCost == 5000000

\* column default of Match.status
MatchRow(pid, m) ==
    [prospectus_id  |-> pid,
     property_id    |-> m.property.id,
     total_score    |-> m.scores.total_score,
     size_score     |-> m.scores.size_score,
     parking_score  |-> m.scores.parking_score,
     price_score    |-> m.scores.price_score,
     location_score |-> m.scores.location_score]

\* a table row as the dict handed to the matcher
PropertyDict(rows, id) ==
    [id                   |-> id,
     available_sqft       |-> rows[id].available_sqft,
     parking_spaces       |-> rows[id].parking_spaces,
     asking_rent_per_sqft |-> rows[id].asking_rent_per_sqft]

AllPropertyDicts(rows) == [i \in 1..Len(rows) |-> PropertyDict(rows, i)]

RECURSIVE MatchRows(_, _)
MatchRows(pid, ms) ==
    IF ms = <<>> THEN <<>> ELSE <<MatchRow(pid, Head(ms))>> \o MatchRows(pid, Tail(ms))

\* POST /match-properties/{prospectus_id}
MatchProperties(prospectus_id) ==
    IF prospectus_id \notin 1..Len(db_prospectuses)
    THEN /\ response' = [kind |-> "match_properties", status_code |-> 404]
         /\ UNCHANGED <<db_matches>>
    ELSE LET found == find_matches(db_prospectuses[prospectus_id],
                                   AllPropertyDicts(db_properties), DefaultMinScore)
         IN  IF found.raised # "none"
             THEN /\ response' = [kind |-> "match_properties", status_code |-> 500]
                  /\ UNCHANGED <<db_matches>>
             ELSE /\ Len(db_matches) + Len(found.matches) <= MaxMatches
                  /\ db_matches' = db_matches \o MatchRows(prospectus_id, found.matches)
                  /\ response' = [kind          |-> "match_properties",
                                  status_code   |-> 200,
                                  prospectus_id |-> prospectus_id,
                                  matches_found |-> Len(found.matches),
                                  top_matches   |-> SubSeq(found.matches, 1, Min(5, Len(found.matches)))]

MatchPropertiesCall ==
    /\ \E prospectus_id \in 1..(Len(db_prospectuses) + 1) : MatchProperties(prospectus_id)
    /\ UNCHANGED <<notion_prospectuses, notion_properties, db_prospectuses, db_properties, now>>
    /\ UNCHANGED matcherVars
    /\ UNCHANGED downloadVars

\* query(...).filter(key == value).first(): the row id, 0 when there is none
FirstProspectus(rows, number) ==
    IF \E i \in 1..Len(rows) : rows[i].prospectus_number = number
    THEN CHOOSE i \in 1..Len(rows) :
             /\ rows[i].prospectus_number = number
             /\ \A k \in 1..(i - 1) : rows[k].prospectus_number # number
    ELSE 0

FirstProperty(rows, address) ==
    IF \E i \in 1..Len(rows) : rows[i].address = address
    THEN CHOOSE i \in 1..Len(rows) :
             /\ rows[i].address = address
             /\ \A k \in 1..(i - 1) : rows[k].address # address
    ELSE 0

Coalesce(value, old) == IF value # None THEN value ELSE old

\* complete_workflow.py lines 59-61: only the values that are not None are set
UpdateExisting(existing, p) ==
    [prospectus_number        |-> p.prospectus_number,
     estimated_nusf           |-> Coalesce(p.estimated_nusf, existing.estimated_nusf),
     parking_spaces           |-> Coalesce(p.parking_spaces, existing.parking_spaces),
     rental_rate_per_nusf     |-> Coalesce(p.rental_rate_per_nusf, existing.rental_rate_per_nusf),
     estimated_annual_cost    |-> Coalesce(p.estimated_annual_cost, existing.estimated_annual_cost),
     current_lease_expiration |-> Coalesce(p.current_lease_expiration, existing.current_lease_expiration),
     status                   |-> p.status]

\* One record of the source: rows holds the committed rows (updated in place),
\* pending the objects added to the session, local the list the workflow keeps.
SyncProspectusStep(acc, p) ==
    IF p.prospectus_number = "" THEN acc
    ELSE LET i == FirstProspectus(acc.rows, p.prospectus_number)
         IN  IF i # 0
             THEN [rows    |-> [acc.rows EXCEPT ![i] = UpdateExisting(@, p)],
                   pending |-> acc.pending,
                   local   |-> Append(acc.local, [new |-> FALSE, at |-> i])]
             ELSE [rows    |-> acc.rows,
                   pending |-> Append(acc.pending, p),
                   local   |-> Append(acc.local, [new |-> TRUE, at |-> Len(acc.pending) + 1])]

RECURSIVE SyncProspectuses(_, _)
SyncProspectuses(acc, batch) ==
    IF batch = <<>> THEN acc
    ELSE SyncProspectuses(SyncProspectusStep(acc, Head(batch)), Tail(batch))

SyncPropertyStep(acc, prop) ==
    IF prop.address = "" THEN acc
    ELSE LET i == FirstProperty(acc.rows, prop.address)
         IN  IF i = 0
             THEN [rows    |-> acc.rows,
                   pending |-> Append(acc.pending, prop),
                   local   |-> Append(acc.local, [new |-> TRUE, at |-> Len(acc.pending) + 1])]
             ELSE [rows    |-> acc.rows,
                   pending |-> acc.pending,
                   local   |-> Append(acc.local, [new |-> FALSE, at |-> i])]

RECURSIVE SyncProperties(_, _)
SyncProperties(acc, batch) ==
    IF batch = <<>> THEN acc
    ELSE SyncProperties(SyncPropertyStep(acc, Head(batch)), Tail(batch))

\* the primary keys the local objects have after the commit of line 88
LocalIds(acc) ==
    [k \in 1..Len(acc.local) |->
        IF acc.local[k].new THEN Len(acc.rows) + acc.local[k].at ELSE acc.local[k].at]

\* Prospectus.prospectus_number is unique: the commit fails on a repeated number
CommitFails(acc) ==
    \E x, y \in 1..Len(acc.pending) :
        x # y /\ acc.pending[x].prospectus_number = acc.pending[y].prospectus_number

\* lines 134-153: comparing an absent annual cost raises TypeError
MatchRaises(p, score, t) ==
    /\ p.estimated_annual_cost = None
    /\ \/ score > HighValueScore * Scale
       \/ /\ p.current_lease_expiration # None
          /\ DaysUntil(p.current_lease_expiration, t) < CriticalDays

\* lines 117-153: the Match rows added for one prospectus, up to the first exception
RECURSIVE SaveMatches(_, _, _, _)
SaveMatches(p, pid, ms, t) ==
    IF ms = <<>> THEN <<>>
    ELSE IF MatchRaises(p, Head(ms).scores.total_score, t)
         THEN <<MatchRow(pid, Head(ms))>>
         ELSE <<MatchRow(pid, Head(ms))>> \o SaveMatches(p, pid, Tail(ms), t)

\* lines 104-157: step 3 over local_prospectuses, against local_properties
RECURSIVE WorkflowMatches(_, _, _, _)
WorkflowMatches(rows, ids, property_dicts, t) ==
    IF ids = <<>> THEN <<>>
    ELSE LET p     == rows[Head(ids)]
             found == find_matches(p, property_dicts, DefaultMinScore)
             added == IF found.raised # "none" THEN <<>>
                      ELSE SaveMatches(p, Head(ids), found.matches, t)
         IN  added \o WorkflowMatches(rows, Tail(ids), property_dicts, t)

\* python complete_workflow.py --full
RunCompleteWorkflow ==
    LET pacc  == SyncProspectuses([rows |-> db_prospectuses, pending |-> <<>>, local |-> <<>>],
                                  notion_prospectuses)
        cacc  == SyncProperties([rows |-> db_properties, pending |-> <<>>, local |-> <<>>],
                                notion_properties)
        prows == pacc.rows \o pacc.pending
        crows == cacc.rows \o cacc.pending
        local_properties == [k \in 1..Len(cacc.local) |-> PropertyDict(crows, LocalIds(cacc)[k])]
        added == WorkflowMatches(prows, LocalIds(pacc), local_properties, now)
    IN  /\ IF CommitFails(pacc)
           THEN UNCHANGED <<db_prospectuses, db_properties, db_matches>>
           ELSE /\ Len(db_matches) + Len(added) <= MaxMatches
                /\ db_prospectuses' = prows
                /\ db_properties' = crows
                /\ db_matches' = db_matches \o added
        /\ response' = NoResponse
        /\ UNCHANGED <<notion_prospectuses, notion_properties, now>>
        /\ UNCHANGED matcherVars
        /\ UNCHANGED downloadVars

----------------------------------------------------------------------------
(* Pipeline and dashboard handlers *)

ActiveIds(rows) == {i \in 1..Len(rows) : rows[i].status = "active"}

MatchesOf(matches, pid) == {j \in 1..Len(matches) : matches[j].prospectus_id = pid}

RECURSIVE SumTotals(_, _)
SumTotals(matches, js) ==
    IF js = {} THEN 0
    ELSE LET j == CHOOSE x \in js : TRUE
         IN  matches[j].total_score + SumTotals(matches, js \ {j})

BestTotal(matches, js) ==
    IF js = {} THEN 0
    ELSE LET j == CHOOSE x \in js : \A y \in js : matches[x].total_score >= matches[y].total_score
         IN  matches[j].total_score

\* round(score * 100, 1) if score > 0 else 0, for a score given as a fraction
\* num/den of hundredths of a point; the value reported is in tenths
ReportedScore(num, den) ==
    IF num > 0 THEN (2 * num * 10 + den) \div (2 * den) ELSE 0

\* round(top_matches[0].total_score * 100, 1), in tenths
TopMatchScore(total) == total * 10

\* a bug that would move the 90-day boundary out of the High tier
PipelineUrgencyStrict(p, t) ==
    IF p.current_lease_expiration # None
    THEN IF DaysUntil(p.current_lease_expiration, t) < 90 THEN "High"
         ELSE IF DaysUntil(p.current_lease_expiration, t) <= 180 THEN "Medium"
         ELSE "Low"
    ELSE "Low"

\* main.py lines 252-259 and api/index.py lines 193-200
PipelineUrgency(p, t) ==
    IF p.current_lease_expiration # None
    THEN IF DaysUntil(p.current_lease_expiration, t) <= 90 THEN "High"
         ELSE IF DaysUntil(p.current_lease_expiration, t) <= 180 THEN "Medium"
         ELSE "Low"
    ELSE "Low"

\* one pipeline_item; t1 and t2 are the two readings of utcnow()
PipelineItem(rows, matches, i, t1, t2) ==
    LET p  == rows[i]
        js == MatchesOf(matches, i)
    IN  [id                    |-> i,
         prospectus_number     |-> p.prospectus_number,
         square_footage        |-> p.estimated_nusf,
         annual_value          |-> p.estimated_annual_cost,
         days_until_expiration |-> IF p.current_lease_expiration # None
                                   THEN DaysUntil(p.current_lease_expiration, t2) ELSE None,
         has_expiration        |-> p.current_lease_expiration # None,
         urgency               |-> PipelineUrgency(p, t1),
         match_count           |-> Cardinality(js),
         best_match_score      |-> ReportedScore(BestTotal(matches, js), 1),
         avg_match_score       |-> ReportedScore(SumTotals(matches, js), Max(1, Cardinality(js)))]

UrgencyRank(u) == IF u = "High" THEN 0 ELSE IF u = "Medium" THEN 1 ELSE 2

\* the sort key of lines 283-286, compared as Python compares tuples
PipelineKeyLess(a, b) ==
    LET va == IF Truthy(a.annual_value) THEN 0 - a.annual_value ELSE 0
        vb == IF Truthy(b.annual_value) THEN 0 - b.annual_value ELSE 0
    IN  \/ UrgencyRank(a.urgency) < UrgencyRank(b.urgency)
        \/ UrgencyRank(a.urgency) = UrgencyRank(b.urgency) /\ va < vb

\* a bug that would sort unstably, putting an item before its equals
RECURSIVE InsertPipelineBeforeEqual(_, _)
InsertPipelineBeforeEqual(sorted, item) ==
    IF sorted = <<>> THEN <<item>>
    ELSE IF ~PipelineKeyLess(Head(sorted), item)
         THEN <<item>> \o sorted
         ELSE <<Head(sorted)>> \o InsertPipelineBeforeEqual(Tail(sorted), item)

\* list.sort is stable: an item goes after the items with an equal key
RECURSIVE InsertPipeline(_, _)
InsertPipeline(sorted, item) ==
    IF sorted = <<>> THEN <<item>>
    ELSE IF PipelineKeyLess(item, Head(sorted))
         THEN <<item>> \o sorted
         ELSE <<Head(sorted)>> \o InsertPipeline(Tail(sorted), item)

\* line 240: query(Prospectus).filter(status == "active").all() has no
\* ORDER BY, so the active rows come in an order the database chooses
QueryOrders(rows) ==
    {order \in [1..Cardinality(ActiveIds(rows)) -> ActiveIds(rows)] :
        \A x, y \in DOMAIN order : x # y => order[x] # order[y]}

\* the items of the rows in the order of the query, then sorted
RECURSIVE PipelineData(_, _, _, _, _)
PipelineData(rows, matches, order, t1, t2) ==
    IF order = <<>> THEN <<>>
    ELSE InsertPipeline(PipelineData(rows, matches, SubSeq(order, 1, Len(order) - 1), t1, t2),
                        PipelineItem(rows, matches, order[Len(order)], t1, t2))

CountUrgency(items, u) == Cardinality({k \in 1..Len(items) : items[k].urgency = u})

\* GET /api/gsa-pipeline/
GetGsaPipeline ==
    /\ \E skew \in 0..MaxClockSkew, order \in QueryOrders(db_prospectuses) :
          LET pipeline_data == PipelineData(db_prospectuses, db_matches, order, now, now + skew)
          IN  response' = [kind          |-> "gsa_pipeline",
                           status        |-> "success",
                           total_opportunities |-> Len(pipeline_data),
                           high_urgency   |-> CountUrgency(pipeline_data, "High"),
                           medium_urgency |-> CountUrgency(pipeline_data, "Medium"),
                           low_urgency    |-> CountUrgency(pipeline_data, "Low"),
                           opportunities |-> pipeline_data,
                           \* not part of the reply: the order the query returned
                           query_order   |-> order]
    /\ UNCHANGED <<notion_prospectuses, notion_properties,
                   db_prospectuses, db_properties, db_matches, now>>
    /\ UNCHANGED matcherVars
    /\ UNCHANGED downloadVars

\* main.py lines 323-332: the band the dashboard counts a requirement in
DashboardBand(p, t) ==
    IF p.current_lease_expiration # None
    THEN IF DaysUntil(p.current_lease_expiration, t) <= 90 THEN "high"
         ELSE IF DaysUntil(p.current_lease_expiration, t) <= 180 THEN "medium"
         ELSE "none"
    ELSE "none"

\* GET /api/dashboard-stats/
GetDashboardStats ==
    /\ response' =
          [kind                 |-> "dashboard_stats",
           status               |-> "success",
           total_opportunities  |-> Cardinality(ActiveIds(db_prospectuses)),
           total_properties     |-> Len(db_properties),
           total_matches        |-> Len(db_matches),
           high_urgency_count   |-> Cardinality({i \in ActiveIds(db_prospectuses) :
                                       DashboardBand(db_prospectuses[i], now) = "high"}),
           medium_urgency_count |-> Cardinality({i \in ActiveIds(db_prospectuses) :
                                       DashboardBand(db_prospectuses[i], now) = "medium"}),
           top_match_score      |-> IF db_matches # <<>>
                                    THEN TopMatchScore(BestTotal(db_matches, 1..Len(db_matches)))
                                    ELSE 0]
    /\ UNCHANGED <<notion_prospectuses, notion_properties,
                   db_prospectuses, db_properties, db_matches, now>>
    /\ UNCHANGED matcherVars
    /\ UNCHANGED downloadVars

----------------------------------------------------------------------------
(* The store: inputs and specification *)

ExpirationSoon == Now0 + 100 * TicksPerDay

\* a source page without a title, which every sync skips
UntitledProspectus ==
    [prospectus_number        |-> "",
     estimated_nusf           |-> 2,
     parking_spaces           |-> 1,
     rental_rate_per_nusf     |-> 1,
     estimated_annual_cost    |-> 6000000,
     current_lease_expiration |-> None,
     status                   |-> "active"]

NotionProspectusInputs ==
    {UntitledProspectus} \cup
    [prospectus_number        : {"P1", "P2"},
     estimated_nusf           : {0, 2},
     parking_spaces           : {1},
     rental_rate_per_nusf     : {1},
     estimated_annual_cost    : {None, 6000000},
     current_lease_expiration : {None, ExpirationSoon},
     status                   : {"active"}]

NotionProperty(address, sqft) ==
    [address |-> address, available_sqft |-> sqft, parking_spaces |-> 1, asking_rent_per_sqft |-> 1]

NotionPropertyInputs == {NotionProperty("A1", 2), NotionProperty("A2", 1)}

MaxSource == 2

SeqsUpTo(S, n) == UNION {[1..k -> S] : k \in 0..n}

Init ==
    /\ notion_prospectuses \in SeqsUpTo(NotionProspectusInputs, MaxSource)
    /\ notion_properties \in SeqsUpTo(NotionPropertyInputs, MaxSource)
    /\ db_prospectuses = <<>>
    /\ db_properties = <<>>
    /\ db_matches = <<>>
    /\ now = Now0
    /\ response = NoResponse
    /\ prospectus = [estimated_nusf |-> None, parking_spaces |-> None, rental_rate_per_nusf |-> None]
    /\ properties = <<>>
    /\ min_score = DefaultMinScore
    /\ result = NotCalled
    /\ matcher_weights = weights
    /\ DownloadIdle

Next ==
    \/ RunCompleteWorkflow
    \/ MatchPropertiesCall
    \/ GetGsaPipeline
    \/ GetDashboardStats

Spec == Init /\ [][Next]_vars

----------------------------------------------------------------------------
(* Store: claims *)

\* C5: the stored matches hold at most one MatchResult for each
\* (requirement, candidate) pair, whatever matching runs were made.
C5_NoDuplicatePairs ==
    \A i, j \in 1..Len(db_matches) :
        (/\ db_matches[i].prospectus_id = db_matches[j].prospectus_id
         /\ db_matches[i].property_id = db_matches[j].property_id) => i = j

ReportedInRange(x) == 0 <= x /\ x <= 100 * 10

\* C6: every persisted match has its five scores in [0,100], and the best,
\* average and top match scores the pipeline and the dashboard report for
\* the stored matches are in [0,100] too.
C6_OneScoreScale ==
    /\ \A j \in 1..Len(db_matches) :
          /\ InScoreRange(db_matches[j].total_score)
          /\ InScoreRange(db_matches[j].size_score)
          /\ InScoreRange(db_matches[j].location_score)
          /\ InScoreRange(db_matches[j].parking_score)
          /\ InScoreRange(db_matches[j].price_score)
    /\ response.kind = "gsa_pipeline" =>
          \A k \in 1..Len(response.opportunities) :
              /\ ReportedInRange(response.opportunities[k].best_match_score)
              /\ ReportedInRange(response.opportunities[k].avg_match_score)
    /\ response.kind = "dashboard_stats" => ReportedInRange(response.top_match_score)

Unscorable(p) == p.estimated_nusf \in {None, 0}

\* C16: once a batch run with an unscorable requirement (required area zero
\* or absent) has reached its final commit, every other requirement of the
\* batch has been matched and its matches are persisted: each stored
\* candidate scoring at least the threshold against it has a stored match.
C16_UnscorableIsSkipped ==
    (\E u \in 1..Len(db_prospectuses) : Unscorable(db_prospectuses[u])) =>
        \A q \in 1..Len(db_prospectuses), c \in 1..Len(db_properties) :
            (/\ ~Unscorable(db_prospectuses[q])
             /\ calculate_match_score(db_prospectuses[q], PropertyDict(db_properties, c)).total_score
                    >= DefaultMinScore * Scale)
                => \E j \in 1..Len(db_matches) :
                       db_matches[j].prospectus_id = q /\ db_matches[j].property_id = c

\* the stored candidates that have a stored match with requirement q
MatchedCandidates(q) ==
    {db_matches[j].property_id : j \in {k \in 1..Len(db_matches) : db_matches[k].prospectus_id = q}}

\* the stored candidates find_matches returns for requirement q
QualifyingCandidates(q) ==
    IF Unscorable(db_prospectuses[q]) THEN {}
    ELSE {c \in 1..Len(db_properties) :
             calculate_match_score(db_prospectuses[q], PropertyDict(db_properties, c)).total_score
                 >= DefaultMinScore * Scale}

\* C26: for each requirement the persisted matches are all of the matches
\* find_matches returned for it or none of them, never a proper non-empty
\* subset.
C26_AllMatchesOrNone ==
    \A q \in 1..Len(db_prospectuses) :
        \/ MatchedCandidates(q) = {}
        \/ MatchedCandidates(q) = QualifyingCandidates(q)

----------------------------------------------------------------------------
(* Urgency bands of the other call sites *)

\* daily_brief.py lines 211-216: the filter of the EXPIRING_SOON trigger
ExpiringSoon(p, t) ==
    /\ p.current_lease_expiration # None
    /\ p.current_lease_expiration <= t + 90 * TicksPerDay
    /\ p.current_lease_expiration > t
    /\ p.status = "active"

\* deal_calculator.py: DealCalculator.calculate_timeline_value; the
\* multiplier is in tenths, times are in ticks
calculate_timeline_value(p, t) ==
    IF p.current_lease_expiration = None
    THEN [urgency_level         |-> "Unknown",
          days_until_expiration |-> None,
          has_days              |-> FALSE,
          urgency_multiplier    |-> 10]
    ELSE LET days_until == DaysUntil(p.current_lease_expiration, t)
         IN  [urgency_level         |-> IF days_until < 180 THEN "CRITICAL"
                                        ELSE IF days_until < 365 THEN "HIGH"
                                        ELSE IF days_until < 730 THEN "MEDIUM"
                                        ELSE "LOW",
              days_until_expiration |-> days_until,
              has_days              |-> TRUE,
              urgency_multiplier    |-> IF days_until < 180 THEN 13
                                        ELSE IF days_until < 365 THEN 12
                                        ELSE IF days_until < 730 THEN 11
                                        ELSE 10,
              rfp_expected          |-> p.current_lease_expiration - 270 * TicksPerDay,
              time_to_prepare       |-> Max(days_until - 270, 0)]

\* win_strategy.py: WinningStrategy.calculate_urgency
calculate_urgency(p, t) ==
    IF p.current_lease_expiration = None THEN 999
    ELSE DaysUntil(p.current_lease_expiration, t)

\* win_strategy.py lines 123-132
TimelineAdvantage(p, t) ==
    LET urgency_days == calculate_urgency(p, t)
    IN  IF urgency_days < 180 THEN 15
        ELSE IF urgency_days < 365 THEN 12
        ELSE IF urgency_days < 730 THEN 8
        ELSE 5

CalculateTimelineValue ==
    /\ \E i \in 1..Len(db_prospectuses) :
          response' = [kind |-> "timeline_value", id |-> i,
                       timeline |-> calculate_timeline_value(db_prospectuses[i], now)]
    /\ UNCHANGED <<notion_prospectuses, notion_properties,
                   db_prospectuses, db_properties, db_matches, now>>
    /\ UNCHANGED matcherVars
    /\ UNCHANGED downloadVars

MaxDays == 735

ExpirationInputs == {None} \cup (0..(Now0 + MaxDays * TicksPerDay))

UrgencyProspectusInputs ==
    [prospectus_number        : {"P1"},
     estimated_nusf           : {2},
     parking_spaces           : {1},
     rental_rate_per_nusf     : {1},
     estimated_annual_cost    : {6000000},
     current_lease_expiration : ExpirationInputs,
     status                   : {"active", "awarded"}]

InitUrgency ==
    /\ db_prospectuses \in {<<p>> : p \in UrgencyProspectusInputs}
    /\ notion_prospectuses = <<>>
    /\ notion_properties = <<>>
    /\ db_properties = <<>>
    /\ db_matches = <<>>
    /\ now = Now0
    /\ response = NoResponse
    /\ prospectus = [estimated_nusf |-> None, parking_spaces |-> None, rental_rate_per_nusf |-> None]
    /\ properties = <<>>
    /\ min_score = DefaultMinScore
    /\ result = NotCalled
    /\ matcher_weights = weights
    /\ DownloadIdle

NextUrgency ==
    \/ GetGsaPipeline
    \/ GetDashboardStats
    \/ CalculateTimelineValue

SpecUrgency == InitUrgency /\ [][NextUrgency]_vars

----------------------------------------------------------------------------
(* Urgency: claims *)

ItemDays(item) == DaysUntil(db_prospectuses[item.id].current_lease_expiration, now)

\* C7: for a requirement with an expiration date the pipeline's tier is High
\* iff days-until-expiration <= 90, Medium iff 90 < days <= 180, Low iff
\* days > 180.
C7_PipelineTiers ==
    response.kind = "gsa_pipeline" =>
        \A k \in 1..Len(response.opportunities) :
            LET item == response.opportunities[k]
            IN  item.has_expiration =>
                    /\ item.urgency = "High" <=> ItemDays(item) <= 90
                    /\ item.urgency = "Medium" <=> (90 < ItemDays(item) /\ ItemDays(item) <= 180)
                    /\ item.urgency = "Low" <=> ItemDays(item) > 180

\* the pipeline reported a requirement exactly 90 days from expiration as High
C7_Witness ==
    /\ response.kind = "gsa_pipeline"
    /\ \E k \in 1..Len(response.opportunities) :
          /\ response.opportunities[k].has_expiration
          /\ ItemDays(response.opportunities[k]) = 90
          /\ response.opportunities[k].urgency = "High"

\* C30: in every item of the pipeline, urgency is High iff
\* days_until_expiration is present and <= 90, and Medium iff
\* 90 < days_until_expiration <= 180, also when the clock advances between
\* the two readings.
C30_ItemUrgencyMatchesItsDays ==
    response.kind = "gsa_pipeline" =>
        \A k \in 1..Len(response.opportunities) :
            LET item == response.opportunities[k]
                days == item.days_until_expiration
            IN  /\ item.urgency = "High" <=> (item.has_expiration /\ days <= 90)
                /\ item.urgency = "Medium" <=> (item.has_expiration /\ 90 < days /\ days <= 180)

\* C8: the pipeline's tier is Unknown if and only if the requirement has no
\* expiration date.
C8_UnknownIffNoExpiration ==
    response.kind = "gsa_pipeline" =>
        \A k \in 1..Len(response.opportunities) :
            response.opportunities[k].urgency = "Unknown"
                <=> ~response.opportunities[k].has_expiration

\* C9: for every days-until-expiration value the pipeline, the dashboard
\* counters, the daily brief's expiring-soon trigger, the deal calculator's
\* urgency level and the win strategy's timeline band agree on the most
\* urgent band (d <= 90) and on the next band (90 < d <= 180).
C9_BandsAgree ==
    response.kind = "timeline_value" =>
        LET p == db_prospectuses[response.id]
            d == DaysUntil(p.current_lease_expiration, now)
        IN  (p.current_lease_expiration # None /\ p.status = "active") =>
                /\ PipelineUrgency(p, now) = "High" <=> d <= 90
                /\ DashboardBand(p, now) = "high" <=> d <= 90
                /\ ExpiringSoon(p, now) <=> d <= 90
                /\ response.timeline.urgency_level = "CRITICAL" <=> d <= 90
                /\ TimelineAdvantage(p, now) = 15 <=> d <= 90
                /\ PipelineUrgency(p, now) = "Medium" <=> (90 < d /\ d <= 180)
                /\ DashboardBand(p, now) = "medium" <=> (90 < d /\ d <= 180)
                /\ response.timeline.urgency_level = "HIGH" <=> (90 < d /\ d <= 180)
                /\ TimelineAdvantage(p, now) = 12 <=> (90 < d /\ d <= 180)

----------------------------------------------------------------------------
(* WinningStrategy.calculate_win_probability *)

(* Text fields (location, agency, special_requirements) are modelled by the
   set of the code's keywords that occur in the lower-cased text; None, ''
   and a text without keywords are all the empty set.  The state is a string
   that lower() maps to lower case. *)

LowerTable == [WV |-> "wv", OH |-> "oh", CA |-> "ca"]

Lower(str) == IF str \in DOMAIN LowerTable THEN LowerTable[str] ELSE str

RuralStates == {"wv", "mt", "wy", "vt", "me", "nd", "sd", "ak"}

MidSizeStates == {"oh", "ut", "ok", "ks", "ne", "ia", "ar", "ms", "al"}

MetroKeywords == {"washington", "new york", "los angeles", "chicago", "boston", "san francisco"}

\* prospectus.field or 0
OrZero(x) == IF Truthy(x) THEN x ELSE 0

\* a bug that would score the smallest band above the stated maximum
SizeAdvantageOver(p) ==
    LET sqft == OrZero(p.estimated_nusf)
    IN  IF sqft < 30000 THEN 30
        ELSE IF sqft < 50000 THEN 20
        ELSE IF sqft < 75000 THEN 15
        ELSE IF sqft < 100000 THEN 10
        ELSE 5

SizeAdvantage(p) ==
    LET sqft == OrZero(p.estimated_nusf)
    IN  IF sqft < 30000 THEN 25
        ELSE IF sqft < 50000 THEN 20
        ELSE IF sqft < 75000 THEN 15
        ELSE IF sqft < 100000 THEN 10
        ELSE 5

LocationAdvantage(p) ==
    IF Lower(p.state) \in RuralStates THEN 20
    ELSE IF Lower(p.state) \in MidSizeStates THEN 15
    ELSE IF \E metro \in MetroKeywords : metro \in p.location THEN 5
    ELSE 12

AgencyAdvantage(p) ==
    IF "va" \in p.agency /\ "medical" \in p.special_requirements THEN 20
    ELSE IF "va" \in p.agency THEN 18
    ELSE IF "usda" \in p.agency \/ "agriculture" \in p.agency THEN 16
    ELSE IF "sba" \in p.agency THEN 15
    ELSE IF "gsa" \in p.agency THEN 12
    ELSE IF "dod" \in p.agency \/ "defense" \in p.agency THEN 8
    ELSE 10

CompetitionAdvantage(p) ==
    IF \E req \in {"medical", "laboratory", "secure", "classified"} : req \in p.special_requirements
    THEN 10
    ELSE IF \E req \in {"parking", "loading", "storage"} : req \in p.special_requirements
    THEN 7
    ELSE 5

\* a bug that would exclude the edges of the $2M-$8M band
ValueAdvantageOpenBand(p) ==
    LET annual_value == OrZero(p.estimated_annual_cost)
    IN  IF 2000000 < annual_value /\ annual_value < 8000000 THEN 10
        ELSE IF 1000000 <= annual_value /\ annual_value <= 15000000 THEN 8
        ELSE IF annual_value > 20000000 THEN 3
        ELSE 6

ValueAdvantage(p) ==
    LET annual_value == OrZero(p.estimated_annual_cost)
    IN  IF 2000000 <= annual_value /\ annual_value <= 8000000 THEN 10
        ELSE IF 1000000 <= annual_value /\ annual_value <= 15000000 THEN 8
        ELSE IF annual_value > 20000000 THEN 3
        ELSE 6

calculate_win_probability(p, t) ==
    LET scores == [size_advantage        |-> SizeAdvantage(p),
                   location_advantage    |-> LocationAdvantage(p),
                   agency_advantage      |-> AgencyAdvantage(p),
                   timeline_advantage    |-> TimelineAdvantage(p, t),
                   competition_advantage |-> CompetitionAdvantage(p),
                   value_advantage       |-> ValueAdvantage(p),
                   total_score           |-> 0]
        \* sum(scores.values()) - scores['total_score']
        sum == scores.size_advantage + scores.location_advantage + scores.agency_advantage
               + scores.timeline_advantage + scores.competition_advantage
               + scores.value_advantage + scores.total_score
    IN  [scores EXCEPT !.total_score = sum - scores.total_score]

CalculateWinProbability ==
    /\ response.kind = "none"
    /\ \E i \in 1..Len(db_prospectuses) :
          response' = [kind |-> "win_probability", id |-> i,
                       scores |-> calculate_win_probability(db_prospectuses[i], now)]
    /\ UNCHANGED <<notion_prospectuses, notion_properties,
                   db_prospectuses, db_properties, db_matches, now>>
    /\ UNCHANGED matcherVars
    /\ UNCHANGED downloadVars

\* the values on both sides of every band edge, absent and zero
SqftInputs == {None, 0, 29999, 30000, 49999, 50000, 74999, 75000, 99999, 100000}

AnnualCostInputs ==
    {None, 0, 999999, 1000000, 1999999, 2000000, 5000000, 8000000, 8000001,
     9000000, 15000000, 15000001, 20000000, 20000001}

DaysInputs == {90, 91, 179, 180, 364, 365, 729, 730}

WinProspectusInputs ==
    [prospectus_number        : {"P1"},
     estimated_nusf           : SqftInputs,
     location                 : {{}, {"washington"}},
     state                    : {"", "WV", "OH"},
     agency                   : {{}} \cup {{k} : k \in {"va", "usda", "agriculture", "sba", "gsa", "dod", "defense"}},
     special_requirements     : {{}, {"medical"}, {"secure"}, {"parking"}},
     estimated_annual_cost    : AnnualCostInputs,
     current_lease_expiration : {None} \cup {Now0 + d * TicksPerDay : d \in DaysInputs},
     status                   : {"active"}]

InitWin ==
    /\ db_prospectuses \in {<<p>> : p \in WinProspectusInputs}
    /\ notion_prospectuses = <<>>
    /\ notion_properties = <<>>
    /\ db_properties = <<>>
    /\ db_matches = <<>>
    /\ now = Now0
    /\ response = NoResponse
    /\ prospectus = [estimated_nusf |-> None, parking_spaces |-> None, rental_rate_per_nusf |-> None]
    /\ properties = <<>>
    /\ min_score = DefaultMinScore
    /\ result = NotCalled
    /\ matcher_weights = weights
    /\ DownloadIdle

NextWin == CalculateWinProbability

SpecWin == InitWin /\ [][NextWin]_vars

\* C10: each of the six sub-scores is one band value within its stated
\* maximum, and total_score is their sum and lies in [0,100].
C10_WinScoreBands ==
    response.kind = "win_probability" =>
        LET sc == response.scores
        IN  /\ sc.size_advantage \in {5, 10, 15, 20, 25}
            /\ sc.location_advantage \in {5, 12, 15, 20}
            /\ sc.agency_advantage \in {8, 10, 12, 15, 16, 18, 20}
            /\ sc.timeline_advantage \in {5, 8, 12, 15}
            /\ sc.competition_advantage \in {5, 7, 10}
            /\ sc.value_advantage \in {3, 6, 8, 10}
            /\ sc.total_score = sc.size_advantage + sc.location_advantage + sc.agency_advantage
                                + sc.timeline_advantage + sc.competition_advantage
                                + sc.value_advantage
            /\ 0 <= sc.total_score /\ sc.total_score <= 100

\* a requirement in the top band of all six factors scores exactly 100
C10_Witness ==
    /\ response.kind = "win_probability"
    /\ response.scores.total_score = 100
    /\ response.scores.size_advantage = 25
    /\ response.scores.value_advantage = 10

\* the annual cost of the requirement the last response scored, 0 when absent
ScoredCost == OrZero(db_prospectuses[response.id].estimated_annual_cost)

\* C22: the value-advantage sub-score is 10 exactly when
\* 2,000,000 <= annual cost <= 8,000,000, every cost outside that range scores
\* strictly less, and costs above 20,000,000 score the lowest value of all
\* bands (every other cost scores strictly more than they do).
C22_ValueSweetSpot ==
    response.kind = "win_probability" =>
        LET value == response.scores.value_advantage
            inside == 2000000 <= ScoredCost /\ ScoredCost <= 8000000
        IN  /\ inside <=> value = 10
            /\ ~inside => value < 10
            /\ ScoredCost > 20000000 => value = 3
            /\ ScoredCost <= 20000000 => value > 3

\* 5,000,000 scored 10 (9,000,000 is scored 8 by the same formula)
C22_Witness ==
    /\ response.kind = "win_probability"
    /\ ScoredCost = 5000000
    /\ response.scores.value_advantage = 10
    /\ ValueAdvantage([estimated_annual_cost |-> 9000000]) = 8
    /\ ValueAdvantage([estimated_annual_cost |-> 20000001]) = 3

\* the band of a days-until-expiration value among
\* <= 90, 91-180, 181-365, 366-730 and > 730
TimelineBand(d) ==
    IF d <= 90 THEN 1
    ELSE IF d <= 180 THEN 2
    ELSE IF d <= 365 THEN 3
    ELSE IF d <= 730 THEN 4
    ELSE 5

\* C23: the timeline-advantage sub-score never increases with
\* days-until-expiration, and two requirements that differ only in their
\* expiration date get the same sub-score when their days fall in the same band
\* among <= 90, 91-180, 181-365, 366-730, > 730 and different sub-scores when
\* they fall in different bands.
C23_TimelineBands ==
    (response.kind = "win_probability"
        /\ db_prospectuses[response.id].current_lease_expiration # None) =>
        LET p == db_prospectuses[response.id]
            d == DaysUntil(p.current_lease_expiration, now)
        IN  /\ response.scores.timeline_advantage = TimelineAdvantage(p, now)
            /\ \A e \in DaysInputs \cup {731} :
                  LET q == [p EXCEPT !.current_lease_expiration = Now0 + e * TicksPerDay]
                  IN  /\ e >= d => TimelineAdvantage(q, now) <= TimelineAdvantage(p, now)
                      /\ TimelineBand(e) = TimelineBand(d)
                             <=> TimelineAdvantage(q, now) = TimelineAdvantage(p, now)

----------------------------------------------------------------------------
(* DealCalculator *)

(* Money: the annual cost and the lease value are in dollars; the earnings
   are in half-cents (200 to the dollar), the unit in which 0.5% of a whole
   dollar is exact.  Risk scores are in tenths, and risk_adjusted_value, a
   product of the two, is in tenths of a half-cent.  The rounding of binary
   floating point is not modelled.  The quotients rent_per_sqft,
   roi_percentage, profit_per_hour, payback_period_months,
   deal_size_vs_market and rent_vs_market, and risk_level, whose comparison
   depends on that rounding (0.1 + 0.2 > 0.3), are left out of the result. *)

\* lines 17-22: the three rates in half-cents per dollar, the flat fee in half-cents
fee_structures ==
    [finder_fee         |-> 4,
     consulting_fee     |-> 25000 * 200,
     success_bonus      |-> 2,
     ongoing_commission |-> 1]

high_competition_areas ==
    {"washington", "new york", "los angeles", "chicago", "boston", "san francisco"}

\* a bug that would forget the "or 0" of line 27
AnnualValueUnguarded(p) == p.estimated_annual_cost

\* line 27
AnnualValue(p) == OrZero(p.estimated_annual_cost)

\* line 28: prospectus.max_lease_term_years or 10
LeaseTerm(p) == IF Truthy(p.max_lease_term_years) THEN p.max_lease_term_years ELSE 10

\* a bug that would leave the success bonus out of the upfront total
DealEarningsNoBonus(annual_value, lease_term) ==
    LET finder_fee                == annual_value * fee_structures.finder_fee
        consulting_fee            == fee_structures.consulting_fee
        success_bonus             == annual_value * fee_structures.success_bonus
        ongoing_annual_commission == annual_value * fee_structures.ongoing_commission
        total_upfront             == finder_fee + consulting_fee
        total_ongoing             == ongoing_annual_commission * lease_term
    IN  [finder_fee                |-> finder_fee,
         consulting_fee            |-> consulting_fee,
         success_bonus             |-> success_bonus,
         ongoing_annual_commission |-> ongoing_annual_commission,
         total_upfront             |-> total_upfront,
         total_ongoing             |-> total_ongoing,
         total_potential           |-> total_upfront + total_ongoing]

\* lines 44-52 and 60-67: 'your_potential_earnings' with its totals
DealEarnings(annual_value, lease_term) ==
    LET finder_fee                == annual_value * fee_structures.finder_fee
        consulting_fee            == fee_structures.consulting_fee
        success_bonus             == annual_value * fee_structures.success_bonus
        ongoing_annual_commission == annual_value * fee_structures.ongoing_commission
        total_upfront             == finder_fee + consulting_fee + success_bonus
        total_ongoing             == ongoing_annual_commission * lease_term
    IN  [finder_fee                |-> finder_fee,
         consulting_fee            |-> consulting_fee,
         success_bonus             |-> success_bonus,
         ongoing_annual_commission |-> ongoing_annual_commission,
         total_upfront             |-> total_upfront,
         total_ongoing             |-> total_ongoing,
         total_potential           |-> total_upfront + total_ongoing]

\* a bug that would forget the min(risk_score, 1.0) of line 169
OverallRiskUnclamped(risk_score) == risk_score

\* line 169, in tenths
OverallRisk(risk_score) == Min(risk_score, 10)

\* the risk factors that apply, each with its weight in tenths
RiskFactors(p, t) ==
    LET sqft         == OrZero(p.estimated_nusf)
        annual_value == OrZero(p.estimated_annual_cost)
        timeline     == calculate_timeline_value(p, t)
    IN  (IF sqft > 200000 THEN {<<"size", 2>>}
         ELSE IF sqft < 10000 THEN {<<"size", 1>>} ELSE {})
        \cup
        (IF annual_value > 20000000 THEN {<<"value", 3>>}
         ELSE IF annual_value < 500000 THEN {<<"value", 2>>} ELSE {})
        \cup
        (IF \E area \in high_competition_areas : area \in p.location
         THEN {<<"location", 3>>} ELSE {})
        \cup
        (IF "dod" \in p.agency \/ "defense" \in p.agency THEN {<<"agency", 2>>}
         ELSE IF "gsa" \in p.agency /\ annual_value > 10000000 THEN {<<"agency", 2>>} ELSE {})
        \cup
        \* a day count of None or 0 is falsy
        (IF timeline.has_days /\ timeline.days_until_expiration # 0
               /\ timeline.days_until_expiration < 90
         THEN {<<"timeline", 3>>} ELSE {})

RECURSIVE SumRisk(_)
SumRisk(factors) ==
    IF factors = {} THEN 0
    ELSE LET f == CHOOSE x \in factors : TRUE
         IN  f[2] + SumRisk(factors \ {f})

assess_deal_risk(p, t) ==
    LET factors == RiskFactors(p, t)
    IN  [overall_risk |-> OverallRisk(SumRisk(factors)),
         risk_factors |-> {f[1] : f \in factors}]

\* lines 215-250
rate_deal_attractiveness(p, t) ==
    LET annual_value == OrZero(p.estimated_annual_cost)
        timeline     == calculate_timeline_value(p, t)
        score == (IF annual_value > 10000000 THEN 3
                  ELSE IF annual_value > 5000000 THEN 2
                  ELSE IF annual_value > 2000000 THEN 1 ELSE 0)
                 + (IF timeline.urgency_level \in {"CRITICAL", "HIGH"} THEN 2
                    ELSE IF timeline.urgency_level = "MEDIUM" THEN 1 ELSE 0)
                 + (IF "va" \in p.agency THEN 2
                    ELSE IF "gsa" \in p.agency THEN 1 ELSE 0)
    IN  IF score >= 7 THEN "EXCELLENT"
        ELSE IF score >= 5 THEN "GOOD"
        ELSE IF score >= 3 THEN "FAIR"
        ELSE "POOR"

\* lines 193-213
compare_to_market(p, t) ==
    [deal_attractiveness |-> rate_deal_attractiveness(p, t),
     market_position     |-> IF OrZero(p.estimated_annual_cost) > 5000000
                             THEN "Above Average" ELSE "Below Average"]

\* lines 24-80; t1, t2 and t3 are the three readings of datetime.now().
\* Multiplying an annual value of None raises TypeError (lines 40, 45).
calculate_deal_value(p, t1, t2, t3) ==
    LET annual_value == AnnualValue(p)
        lease_term   == LeaseTerm(p)
        sqft         == OrZero(p.estimated_nusf)
        earnings     == DealEarnings(annual_value, lease_term)
        risk         == assess_deal_risk(p, t2)
    IN  IF annual_value = None THEN [raised |-> "TypeError"]
        ELSE [raised |-> "none",
              opportunity_overview |->
                  [prospectus_number  |-> p.prospectus_number,
                   agency             |-> p.agency,
                   location           |-> <<p.location, p.state>>,
                   square_footage     |-> sqft,
                   annual_lease_value |-> annual_value,
                   lease_term_years   |-> lease_term,
                   total_lease_value  |-> annual_value * lease_term],
              your_potential_earnings |-> earnings,
              timeline_analysis |-> calculate_timeline_value(p, t1),
              risk_assessment   |-> risk,
              market_comparison |-> compare_to_market(p, t3),
              profitability |->
                  [risk_adjusted_value |-> earnings.total_potential * (10 - risk.overall_risk)]]

\* python deal_calculator.py --prospectus-id i
CalculateDealValue ==
    /\ response.kind = "none"
    /\ \E i \in 1..Len(db_prospectuses) :
       \E skew1, skew2 \in 0..MaxClockSkew :
          response' = [kind |-> "deal_value", id |-> i,
                       calculations |-> calculate_deal_value(db_prospectuses[i], now,
                                            now + skew1, now + skew1 + skew2)]
    /\ UNCHANGED <<notion_prospectuses, notion_properties,
                   db_prospectuses, db_properties, db_matches, now>>
    /\ UNCHANGED matcherVars
    /\ UNCHANGED downloadVars

\* an annual cost with the lease terms whose earnings stay below 2^31
DealCostAndTerm ==
    ({None, 0, 1, 499999, 500000, 2000001, 5000001} \X {None, 0, 1, 10, 20})
    \cup ({10000000, 10000001} \X {None, 1, 10})
    \cup ({20000000, 20000001} \X {1, 2})

DealProspectus(ct, sqft, location, agency, expiration) ==
    [prospectus_number        |-> "P1",
     agency                   |-> agency,
     location                 |-> location,
     state                    |-> "DC",
     estimated_nusf           |-> sqft,
     estimated_annual_cost    |-> ct[1],
     max_lease_term_years     |-> ct[2],
     current_lease_expiration |-> expiration,
     status                   |-> "active"]

DealProspectusInputs ==
    {DealProspectus(ct, sqft, location, agency, expiration) :
        ct \in DealCostAndTerm,
        sqft \in {None, 0, 9999, 10000, 200000, 200001},
        location \in {{}, {"washington"}},
        agency \in {{}, {"dod"}, {"gsa"}, {"va"}},
        expiration \in {None, Now0 - TicksPerDay}
                       \cup {Now0 + d * TicksPerDay : d \in {0, 89, 90, 400}}}

InitDeal ==
    /\ db_prospectuses \in {<<p>> : p \in DealProspectusInputs}
    /\ notion_prospectuses = <<>>
    /\ notion_properties = <<>>
    /\ db_properties = <<>>
    /\ db_matches = <<>>
    /\ now = Now0
    /\ response = NoResponse
    /\ prospectus = [estimated_nusf |-> None, parking_spaces |-> None, rental_rate_per_nusf |-> None]
    /\ properties = <<>>
    /\ min_score = DefaultMinScore
    /\ result = NotCalled
    /\ matcher_weights = weights
    /\ DownloadIdle

NextDeal == CalculateDealValue

SpecDeal == InitDeal /\ [][NextDeal]_vars

----------------------------------------------------------------------------
(* DealCalculator: claims *)

DealReturned == response.kind = "deal_value" /\ response.calculations.raised = "none"

\* the requirement's annual cost in dollars, 0 when absent
DealCost == IF db_prospectuses[response.id].estimated_annual_cost = None THEN 0
            ELSE db_prospectuses[response.id].estimated_annual_cost

DealMaxTerm == db_prospectuses[response.id].max_lease_term_years

\* the fee sentences of C11: 2%, 1% and 0.5% of the annual cost (in
\* half-cents: 4, 2 and 1 to the dollar), the flat 25,000, and the sums
DealFeesAndSums(e) ==
    /\ e.finder_fee = 4 * DealCost
    /\ e.success_bonus = 2 * DealCost
    /\ e.ongoing_annual_commission = DealCost
    /\ e.consulting_fee = 25000 * 200
    /\ e.total_upfront = e.finder_fee + e.consulting_fee + e.success_bonus
    /\ e.total_potential = e.total_upfront + e.total_ongoing

\* C11 as stated: the fees and sums, with lease_term_years the requirement's
\* maximum lease term and total_ongoing the ongoing commission times it.
C11_TermIsMaxLeaseTerm ==
    DealReturned =>
        LET e == response.calculations.your_potential_earnings
        IN  /\ DealFeesAndSums(e)
            /\ response.calculations.opportunity_overview.lease_term_years = DealMaxTerm
            /\ e.total_ongoing = e.ongoing_annual_commission * DealMaxTerm

\* C11 amended: the fees and sums, with lease_term_years the requirement's
\* maximum lease term when that is present and not zero and 10 otherwise,
\* and total_ongoing the ongoing commission times lease_term_years.
C11_DealTotals ==
    DealReturned =>
        LET e    == response.calculations.your_potential_earnings
            term == response.calculations.opportunity_overview.lease_term_years
        IN  /\ DealFeesAndSums(e)
            /\ term = (IF DealMaxTerm \in {None, 0} THEN 10 ELSE DealMaxTerm)
            /\ e.total_ongoing = e.ongoing_annual_commission * term

\* a 20-year requirement of 5,000,001 a year: upfront 175,000.03 and
\* ongoing 500,000.10, in half-cents
C11_Witness ==
    /\ DealReturned
    /\ DealCost = 5000001 /\ DealMaxTerm = 20
    /\ response.calculations.your_potential_earnings.total_upfront = 35000006
    /\ response.calculations.your_potential_earnings.total_ongoing = 100000020

\* C12 as stated: with the annual cost 0 or absent the call completes
\* without raising and total_potential is 0.
C12_ZeroCostZeroPotential ==
    (response.kind = "deal_value" /\ DealCost = 0) =>
        /\ response.calculations.raised = "none"
        /\ response.calculations.your_potential_earnings.total_potential = 0

\* C12 amended: with the annual cost 0 or absent the call completes without
\* raising, the finder fee, success bonus, ongoing commission and
\* total_ongoing are 0, and total_potential is the flat consulting fee 25,000.
C12_ZeroCostFlatFee ==
    (response.kind = "deal_value" /\ DealCost = 0) =>
        /\ response.calculations.raised = "none"
        /\ LET e == response.calculations.your_potential_earnings
           IN  /\ e.finder_fee = 0 /\ e.success_bonus = 0
               /\ e.ongoing_annual_commission = 0 /\ e.total_ongoing = 0
               /\ e.total_potential = 25000 * 200

\* a call that returned for a requirement without an annual cost
C12_Witness ==
    /\ DealReturned
    /\ db_prospectuses[response.id].estimated_annual_cost = None
    /\ response.calculations.opportunity_overview.annual_lease_value = 0

\* C13: overall_risk is within [0,1] (in tenths), risk_adjusted_value is
\* total_potential x (1 - overall_risk), and it lies between 0 and
\* total_potential.
C13_RiskAdjustedValue ==
    DealReturned =>
        LET risk  == response.calculations.risk_assessment.overall_risk
            total == response.calculations.your_potential_earnings.total_potential
            rav   == response.calculations.profitability.risk_adjusted_value
        IN  /\ 0 <= risk /\ risk <= 10
            /\ rav = total * 10 - total * risk
            /\ 0 <= rav /\ rav <= total * 10

\* all five risk factors applied at once: the sum 1.3 is reported as 1.0
C13_Witness ==
    /\ DealReturned
    /\ response.calculations.risk_assessment.risk_factors
           = {"size", "value", "location", "agency", "timeline"}
    /\ db_prospectuses[response.id].estimated_annual_cost > 20000000
    /\ response.calculations.risk_assessment.overall_risk = 10
    /\ response.calculations.profitability.risk_adjusted_value = 0

----------------------------------------------------------------------------
(* DailyIntelligenceBrief.identify_urgent_actions *)

\* lines 211-216: ta and tb are the readings of now() in lines 211 and 214
UrgentExpiring(p, ta, tb) ==
    /\ p.current_lease_expiration # None
    /\ p.current_lease_expiration <= ta + 90 * TicksPerDay
    /\ p.current_lease_expiration > tb
    /\ p.status = "active"

\* the rows of a query as a list; the ids that satisfy keep, in id order
RECURSIVE QueryIds(_, _)
QueryIds(n, keep) ==
    IF n = 0 THEN <<>>
    ELSE IF n \in keep THEN Append(QueryIds(n - 1, keep), n)
         ELSE QueryIds(n - 1, keep)

\* lines 218-226; tc is the reading of now() in line 219
ExpiringSoonActions(rows, ids, tc) ==
    [k \in 1..Len(ids) |->
        [type       |-> "EXPIRING_SOON",
         priority   |-> IF DaysUntil(rows[ids[k]].current_lease_expiration, tc) < 60
                        THEN "CRITICAL" ELSE "HIGH",
         prospectus |-> ids[k]]]

\* lines 229-243: NULL > 3000000 is not true in SQL
HighValueUnmatched(rows, matches) ==
    {i \in 1..Len(rows) :
        /\ rows[i].estimated_annual_cost # None
        /\ rows[i].estimated_annual_cost > 3000000
        /\ rows[i].status = "active"
        /\ MatchesOf(matches, i) = {}}

NoPropertiesActions(ids) ==
    [k \in 1..Len(ids) |-> [type |-> "NO_PROPERTIES", priority |-> "HIGH", prospectus |-> ids[k]]]

\* lines 246-248: query(Prospectus).join(Match) gives no ON clause, and
\* models.py declares neither a foreign key nor a relationship between
\* Match and Prospectus, so SQLAlchemy cannot derive the join condition and
\* raises InvalidRequestError for every content of the tables
ProspectsWithMatches(rows, matches) ==
    [raised |-> "InvalidRequestError", ids |-> <<>>]

\* lines 250-258: no follow-up or outreach record is consulted
OutreachNeededActions(ids) ==
    [k \in 1..Len(ids) |-> [type |-> "OUTREACH_NEEDED", priority |-> "MEDIUM", prospectus |-> ids[k]]]

PriorityRank(priority) == IF priority = "CRITICAL" THEN 0 ELSE IF priority = "HIGH" THEN 1 ELSE 2

\* the sort key of lines 261-264
ActionKeyLess(rows, a, b) ==
    LET va == 0 - OrZero(rows[a.prospectus].estimated_annual_cost)
        vb == 0 - OrZero(rows[b.prospectus].estimated_annual_cost)
    IN  \/ PriorityRank(a.priority) < PriorityRank(b.priority)
        \/ PriorityRank(a.priority) = PriorityRank(b.priority) /\ va < vb

RECURSIVE InsertAction(_, _, _)
InsertAction(rows, sorted, a) ==
    IF sorted = <<>> THEN <<a>>
    ELSE IF ActionKeyLess(rows, a, Head(sorted))
         THEN <<a>> \o sorted
         ELSE <<Head(sorted)>> \o InsertAction(rows, Tail(sorted), a)

RECURSIVE SortActions(_, _)
SortActions(rows, actions) ==
    IF actions = <<>> THEN <<>>
    ELSE InsertAction(rows, SortActions(rows, SubSeq(actions, 1, Len(actions) - 1)),
                      actions[Len(actions)])

\* line 275: formatting an annual cost of None with ':,.0f' raises TypeError
PrintRaises(rows, actions) ==
    \E k \in 1..Min(5, Len(actions)) : rows[actions[k].prospectus].estimated_annual_cost = None

\* lines 203-282; brief_data is the 'urgent_actions' entry the call leaves
\* in self.brief_data, None when the call raised before line 278
identify_urgent_actions(rows, matches, ta, tb, tc) ==
    LET expiring  == ExpiringSoonActions(rows,
                         QueryIds(Len(rows), {i \in 1..Len(rows) : UrgentExpiring(rows[i], ta, tb)}),
                         tc)
        unmatched == NoPropertiesActions(QueryIds(Len(rows), HighValueUnmatched(rows, matches)))
        joined    == ProspectsWithMatches(rows, matches)
        sorted    == SortActions(rows, expiring \o unmatched \o OutreachNeededActions(joined.ids))
    IN  IF joined.raised # "none"
        THEN [raised |-> joined.raised, actions |-> <<>>, brief_data |-> None]
        ELSE IF PrintRaises(rows, sorted)
        THEN [raised |-> "TypeError", actions |-> <<>>, brief_data |-> None]
        ELSE [raised |-> "none", actions |-> sorted, brief_data |-> Len(sorted)]

IdentifyUrgentActions ==
    /\ \E skew1, skew2 \in 0..MaxClockSkew :
          response' = [kind   |-> "urgent_actions",
                       result |-> identify_urgent_actions(db_prospectuses, db_matches,
                                      now, now + skew1, now + skew1 + skew2)]
    /\ UNCHANGED <<notion_prospectuses, notion_properties,
                   db_prospectuses, db_properties, db_matches, now>>
    /\ UNCHANGED matcherVars
    /\ UNCHANGED downloadVars

MaxBrief == 2

BriefProspectus(number, cost, expiration, status) ==
    [prospectus_number        |-> number,
     agency                   |-> {},
     location                 |-> {},
     estimated_nusf           |-> 2,
     parking_spaces           |-> 1,
     rental_rate_per_nusf     |-> 1,
     estimated_annual_cost    |-> cost,
     current_lease_expiration |-> expiration,
     status                   |-> status]

\* the table with rows 1..n, with distinct prospectus numbers
BriefTable(n, cost, expiration, status) ==
    [i \in 1..n |-> BriefProspectus(<<"P", i>>, cost[i], expiration[i], status[i])]

\* a stored match of requirement pid with the one stored property
BriefMatch(pid) ==
    [prospectus_id  |-> pid,
     property_id    |-> 1,
     total_score    |-> 90 * Scale,
     size_score     |-> 100 * Scale,
     parking_score  |-> 100 * Scale,
     price_score    |-> 100 * Scale,
     location_score |-> LocationPlaceholder * Scale]

InitBrief ==
    /\ \E n \in 1..MaxBrief :
       \E cost \in [1..n -> {None, 2000001, 3000001}],
          expiration \in [1..n -> {None, Now0} \cup {Now0 + d * TicksPerDay : d \in {59, 90, 91}}],
          status \in [1..n -> {"active", "awarded"}] :
             db_prospectuses = BriefTable(n, cost, expiration, status)
    /\ db_properties = <<NotionProperty("A1", 2)>>
    /\ \E matched \in SUBSET (1..Len(db_prospectuses)) :
          db_matches = [k \in 1..Cardinality(matched) |->
                           BriefMatch(QueryIds(Len(db_prospectuses), matched)[k])]
    /\ notion_prospectuses = <<>>
    /\ notion_properties = <<>>
    /\ now = Now0
    /\ response = NoResponse
    /\ prospectus = [estimated_nusf |-> None, parking_spaces |-> None, rental_rate_per_nusf |-> None]
    /\ properties = <<>>
    /\ min_score = DefaultMinScore
    /\ result = NotCalled
    /\ matcher_weights = weights
    /\ DownloadIdle

NextBrief == IdentifyUrgentActions

SpecBrief == InitBrief /\ [][NextBrief]_vars

----------------------------------------------------------------------------
(* Daily brief: claims *)

ActionCount(type, i) ==
    Cardinality({k \in 1..Len(response.result.actions) :
                    /\ response.result.actions[k].type = type
                    /\ response.result.actions[k].prospectus = i})

\* C15: identify_urgent_actions returns one EXPIRING_SOON action exactly for
\* each active requirement expiring within 90 days, one NO_PROPERTIES action
\* exactly for each active requirement above the high-value threshold with
\* zero matches, and one OUTREACH_NEEDED action exactly for each requirement
\* that has matches (no follow-up is recorded anywhere); the triggers are
\* independent, one action per trigger satisfied.
C15_ThreeTriggers ==
    response.kind = "urgent_actions" =>
        /\ response.result.raised = "none"
        /\ \A i \in 1..Len(db_prospectuses) :
              LET p == db_prospectuses[i]
              IN  /\ ActionCount("EXPIRING_SOON", i)
                         = IF /\ p.status = "active"
                              /\ p.current_lease_expiration # None
                              /\ p.current_lease_expiration > now
                              /\ p.current_lease_expiration <= now + 90 * TicksPerDay
                           THEN 1 ELSE 0
                  /\ ActionCount("NO_PROPERTIES", i)
                         = IF /\ p.status = "active"
                              /\ p.estimated_annual_cost # None
                              /\ p.estimated_annual_cost > 3000000
                              /\ MatchesOf(db_matches, i) = {}
                           THEN 1 ELSE 0
                  /\ ActionCount("OUTREACH_NEEDED", i)
                         = IF MatchesOf(db_matches, i) # {} THEN 1 ELSE 0

----------------------------------------------------------------------------
(* Pipeline ordering *)

MaxPipeline == 2

\* an annual value with an expiration: tiers Low (no expiration) and High
\* (90 days) with the value absent or one of two amounts, Medium (100 days)
PipelineCostAndExpiration ==
    ({None, 5000000, 6000000} \X {None, Now0 + 90 * TicksPerDay})
    \cup {<<6000000, ExpirationSoon>>}

InitPipeline ==
    /\ \E n \in 1..MaxPipeline :
       \E ce \in [1..n -> PipelineCostAndExpiration] :
          db_prospectuses = BriefTable(n, [i \in 1..n |-> ce[i][1]], [i \in 1..n |-> ce[i][2]],
                                       [i \in 1..n |-> "active"])
    /\ db_properties = <<>>
    /\ db_matches = <<>>
    /\ notion_prospectuses = <<>>
    /\ notion_properties = <<>>
    /\ now = Now0
    /\ response = NoResponse
    /\ prospectus = [estimated_nusf |-> None, parking_spaces |-> None, rental_rate_per_nusf |-> None]
    /\ properties = <<>>
    /\ min_score = DefaultMinScore
    /\ result = NotCalled
    /\ matcher_weights = weights
    /\ DownloadIdle

\* one request: the handler changes nothing, a second request adds no state
NextPipeline == response = NoResponse /\ GetGsaPipeline

SpecPipeline == InitPipeline /\ [][NextPipeline]_vars

\* the annual value the pipeline orders an item by: absent counts as 0
ItemValue(item) == IF item.annual_value = None THEN 0 ELSE item.annual_value

SameTierAndValue(a, b) ==
    UrgencyRank(a.urgency) = UrgencyRank(b.urgency) /\ ItemValue(a) = ItemValue(b)

\* High before Medium before Low, and by value descending within a tier
TierThenValue(a, b) ==
    /\ UrgencyRank(a.urgency) <= UrgencyRank(b.urgency)
    /\ UrgencyRank(a.urgency) = UrgencyRank(b.urgency) => ItemValue(a) >= ItemValue(b)

\* the position of requirement id in the order the query returned
QueryPosition(id) == CHOOSE x \in DOMAIN response.query_order : response.query_order[x] = id

\* C14 as stated: the opportunities are ordered High before Medium before
\* Low, within a tier by annual value descending, and items of one tier with
\* equal annual value by ascending requirement identifier, whatever order
\* the storage returned the requirements in.
C14_PipelineOrder ==
    response.kind = "gsa_pipeline" =>
        \A k, l \in 1..Len(response.opportunities) :
            k < l =>
                LET a == response.opportunities[k]
                    b == response.opportunities[l]
                IN  /\ TierThenValue(a, b)
                    /\ SameTierAndValue(a, b) => a.id < b.id

\* C14 amended: the opportunities are ordered High before Medium before Low
\* and within a tier by annual value descending (absent as 0); items of one
\* tier with equal annual value appear in the order in which the storage
\* returned their requirements.
C14_PipelineOrderStable ==
    response.kind = "gsa_pipeline" =>
        \A k, l \in 1..Len(response.opportunities) :
            k < l =>
                LET a == response.opportunities[k]
                    b == response.opportunities[l]
                IN  /\ TierThenValue(a, b)
                    /\ SameTierAndValue(a, b) => QueryPosition(a.id) < QueryPosition(b.id)

\* the storage returned two requirements of equal tier and value in the
\* order 2, 1, and the reply lists them in that order
C14_Witness ==
    /\ response.kind = "gsa_pipeline"
    /\ response.query_order = <<2, 1>>
    /\ Len(response.opportunities) = 2
    /\ response.opportunities[1].id = 2
    /\ response.opportunities[2].id = 1
    /\ SameTierAndValue(response.opportunities[1], response.opportunities[2])
    /\ response.opportunities[1].annual_value = 6000000

----------------------------------------------------------------------------
(* The three syncs from the Notion source *)

\* main.py lines 377-379 and notion_watcher.py lines 66-68: every key of the
\* source record is set, the absent values included
SetAll(existing, p) == [f \in DOMAIN existing |-> p[f]]

has_significant_update(existing, new_data) ==
    \E field \in {"estimated_annual_cost", "estimated_nusf",
                   "current_lease_expiration", "status"} :
        existing[field] # new_data[field]

\* is_high_value_opportunity compares the values it got with numbers: an
\* absent annual cost, or an absent area once the cost test is false, raises
HighValueRaises(p) ==
    \/ p.estimated_annual_cost = None
    \/ p.estimated_annual_cost <= 5000000 /\ p.estimated_nusf = None

\* notion_watcher.py lines 34-68 for one record of the source
WatchStep(acc, p) ==
    IF acc.raised \/ p.prospectus_number = "" THEN acc
    ELSE LET i == FirstProspectus(acc.rows, p.prospectus_number)
         IN  IF i = 0
             THEN IF HighValueRaises(p)
                  THEN [acc EXCEPT !.raised = TRUE, !.new_count = @ + 1]
                  ELSE [acc EXCEPT !.pending = Append(@, p), !.new_count = @ + 1]
             ELSE IF has_significant_update(acc.rows[i], p)
                  THEN [acc EXCEPT !.rows[i] = SetAll(@, p), !.updated_count = @ + 1]
                  ELSE acc

RECURSIVE WatchProspectuses(_, _)
WatchProspectuses(acc, batch) ==
    IF batch = <<>> THEN acc
    ELSE WatchProspectuses(WatchStep(acc, Head(batch)), Tail(batch))

\* NotionWatcher.check_for_updates: any exception, the failed commit included,
\* rolls the whole batch back
CheckForUpdates ==
    LET acc == WatchProspectuses([rows |-> db_prospectuses, pending |-> <<>>,
                                  new_count |-> 0, updated_count |-> 0, raised |-> FALSE],
                                 notion_prospectuses)
        failed == acc.raised \/ CommitFails(acc)
    IN  /\ db_prospectuses' = IF failed THEN db_prospectuses ELSE acc.rows \o acc.pending
        /\ response' = [kind |-> "check_for_updates", failed |-> failed,
                        new_count |-> acc.new_count, updated_count |-> acc.updated_count]
        /\ UNCHANGED <<notion_prospectuses, notion_properties, db_properties, db_matches, now>>
        /\ UNCHANGED matcherVars
        /\ UNCHANGED downloadVars

\* main.py lines 366-385 for one record of the source
SyncFromNotionStep(acc, np) ==
    IF np.prospectus_number = "" THEN acc
    ELSE LET i == FirstProspectus(acc.rows, np.prospectus_number)
         IN  IF i # 0
             THEN [acc EXCEPT !.rows[i] = SetAll(@, np)]
             ELSE [acc EXCEPT !.pending = Append(@, np)]

RECURSIVE SyncFromNotionProspectuses(_, _)
SyncFromNotionProspectuses(acc, batch) ==
    IF batch = <<>> THEN acc
    ELSE SyncFromNotionProspectuses(SyncFromNotionStep(acc, Head(batch)), Tail(batch))

\* POST /sync-from-notion/
SyncFromNotion ==
    LET pacc == SyncFromNotionProspectuses([rows |-> db_prospectuses, pending |-> <<>>],
                                           notion_prospectuses)
        cacc == SyncProperties([rows |-> db_properties, pending |-> <<>>, local |-> <<>>],
                               notion_properties)
    IN  /\ IF CommitFails(pacc)
           THEN /\ UNCHANGED <<db_prospectuses, db_properties>>
                /\ response' = [kind |-> "sync_from_notion", status_code |-> 500,
                                prospectuses_synced |-> 0, properties_synced |-> 0]
           ELSE /\ db_prospectuses' = pacc.rows \o pacc.pending
                /\ db_properties' = cacc.rows \o cacc.pending
                /\ response' = [kind |-> "sync_from_notion", status_code |-> 200,
                                prospectuses_synced |-> Len(pacc.pending),
                                properties_synced |-> Len(cacc.pending)]
        /\ UNCHANGED <<notion_prospectuses, notion_properties, db_matches, now>>
        /\ UNCHANGED matcherVars
        /\ UNCHANGED downloadVars

\* the requirement as an earlier sync stored it
StoredProspectus ==
    [prospectus_number        |-> "P1",
     estimated_nusf           |-> 2,
     parking_spaces           |-> 1,
     rental_rate_per_nusf     |-> 1,
     estimated_annual_cost    |-> 6000000,
     current_lease_expiration |-> ExpirationSoon,
     status                   |-> "active"]

\* the source as it has been edited since: any of the four key fields of P1
\* changed or cleared, and a new requirement P2
SyncProspectusInputs ==
    [prospectus_number        : {"P1"},
     estimated_nusf           : {2, 3},
     parking_spaces           : {1},
     rental_rate_per_nusf     : {1},
     estimated_annual_cost    : {None, 6000000},
     current_lease_expiration : {None, ExpirationSoon},
     status                   : {"active", "awarded"}]
    \cup
    [prospectus_number        : {"P2"},
     estimated_nusf           : {2},
     parking_spaces           : {1},
     rental_rate_per_nusf     : {1},
     estimated_annual_cost    : {None, 6000000},
     current_lease_expiration : {None},
     status                   : {"active"}]

InitSync ==
    /\ \/ notion_prospectuses = <<>>
       \/ \E a \in SyncProspectusInputs : notion_prospectuses = <<a>>
       \/ \E a, b \in SyncProspectusInputs : notion_prospectuses = <<a, b>>
    /\ notion_properties \in {<<>>, <<NotionProperty("A1", 2)>>,
                              <<NotionProperty("A1", 2), NotionProperty("A1", 2)>>}
    /\ db_prospectuses \in {<<>>, <<StoredProspectus>>}
    /\ db_properties = <<>>
    /\ db_matches = <<>>
    /\ now = Now0
    /\ response = NoResponse
    /\ prospectus = [estimated_nusf |-> None, parking_spaces |-> None, rental_rate_per_nusf |-> None]
    /\ properties = <<>>
    /\ min_score = DefaultMinScore
    /\ result = NotCalled
    /\ matcher_weights = weights
    /\ DownloadIdle

NextSync ==
    \/ RunCompleteWorkflow
    \/ CheckForUpdates
    \/ SyncFromNotion

SpecSync == InitSync /\ [][NextSync]_vars

\* the source records a re-sync can compare with a stored requirement: titled,
\* the only one of their number in the batch, and stored already
Resynced(k) ==
    LET p == notion_prospectuses[k]
    IN  /\ p.prospectus_number # ""
        /\ \A j \in 1..Len(notion_prospectuses) :
               notion_prospectuses[j].prospectus_number = p.prospectus_number => j = k
        /\ FirstProspectus(db_prospectuses, p.prospectus_number) # 0

\* C24: every sync leaves each re-synced requirement with the source's annual
\* cost, required area, expiration date and status, and no sync removes a
\* stored requirement.
C24_ResyncUpdatesKeyFields ==
    [][NextSync =>
        /\ \A i \in 1..Len(db_prospectuses) :
               FirstProspectus(db_prospectuses', db_prospectuses[i].prospectus_number) # 0
        /\ \A k \in 1..Len(notion_prospectuses) :
               Resynced(k) =>
                  LET p   == notion_prospectuses[k]
                      row == db_prospectuses'[FirstProspectus(db_prospectuses', p.prospectus_number)]
                  IN  /\ row.estimated_annual_cost = p.estimated_annual_cost
                      /\ row.estimated_nusf = p.estimated_nusf
                      /\ row.current_lease_expiration = p.current_lease_expiration
                      /\ row.status = p.status]_vars

\* C27: no two stored requirements share a prospectus number and no two
\* stored candidates share an address.
C27_UniqueByNaturalKey ==
    /\ \A i, j \in 1..Len(db_prospectuses) :
           db_prospectuses[i].prospectus_number = db_prospectuses[j].prospectus_number => i = j
    /\ \A i, j \in 1..Len(db_properties) :
           db_properties[i].address = db_properties[j].address => i = j

----------------------------------------------------------------------------
(* load_all_gsa.py: download_pdf *)

MaxRetries == 3

MaxCalls == 3

\* process_prospectus calls download_pdf(url, filename) with the default
\* retries; lines 46-50: an existing file ends the call at once
DownloadPdf ==
    /\ download.pc \in {"idle", "done"}
    /\ download.calls < MaxCalls
    /\ \E retries \in 0..MaxRetries :
          download' = [pc       |-> IF disk # "absent" THEN "done" ELSE "loop",
                       retries  |-> retries,
                       attempt  |-> 0,
                       existed  |-> disk # "absent",
                       requests |-> 0,
                       failures |-> 0,
                       sleeps   |-> 0,
                       returned |-> disk # "absent",
                       calls    |-> download.calls + 1]
    /\ UNCHANGED disk
    /\ UNCHANGED matcherVars
    /\ UNCHANGED storeVars

\* what one pass through lines 54-61 can do: the request fails before the
\* file is opened, the stream fails after it was opened, or all chunks arrive
AttemptOutcomes == {"request_failed", "write_failed", "ok"}

DiskAfter(outcome) ==
    IF outcome = "ok" THEN "complete"
    ELSE IF outcome = "write_failed" THEN "partial"
    ELSE disk

\* a bug that would sleep after the last failed attempt too
AttemptSleepAlways ==
    /\ download.pc = "loop"
    /\ download.attempt < download.retries
    /\ \E outcome \in AttemptOutcomes :
          /\ disk' = DiskAfter(outcome)
          /\ download' =
                IF outcome = "ok"
                THEN [download EXCEPT !.requests = @ + 1, !.returned = TRUE, !.pc = "done"]
                ELSE [download EXCEPT !.requests = @ + 1, !.failures = @ + 1, !.pc = "sleep"]
    /\ UNCHANGED matcherVars
    /\ UNCHANGED storeVars

\* lines 52-66: one iteration of the retry loop
Attempt ==
    /\ download.pc = "loop"
    /\ download.attempt < download.retries
    /\ \E outcome \in AttemptOutcomes :
          /\ disk' = DiskAfter(outcome)
          /\ download' =
                IF outcome = "ok"
                THEN [download EXCEPT !.requests = @ + 1, !.returned = TRUE, !.pc = "done"]
                ELSE IF download.attempt < download.retries - 1
                THEN [download EXCEPT !.requests = @ + 1, !.failures = @ + 1, !.pc = "sleep"]
                ELSE [download EXCEPT !.requests = @ + 1, !.failures = @ + 1,
                                      !.attempt = @ + 1]
    /\ UNCHANGED matcherVars
    /\ UNCHANGED storeVars

\* line 66: time.sleep(2), then the next iteration
Sleep ==
    /\ download.pc = "sleep"
    /\ download' = [download EXCEPT !.sleeps = @ + 1, !.attempt = @ + 1, !.pc = "loop"]
    /\ UNCHANGED disk
    /\ UNCHANGED matcherVars
    /\ UNCHANGED storeVars

\* line 68: the loop is exhausted
ReturnFalse ==
    /\ download.pc = "loop"
    /\ download.attempt >= download.retries
    /\ download' = [download EXCEPT !.returned = FALSE, !.pc = "done"]
    /\ UNCHANGED disk
    /\ UNCHANGED matcherVars
    /\ UNCHANGED storeVars

InitDownload ==
    /\ disk \in {"absent", "complete"}
    /\ download = NoDownload
    /\ prospectus = [estimated_nusf |-> None, parking_spaces |-> None, rental_rate_per_nusf |-> None]
    /\ properties = <<>>
    /\ min_score = DefaultMinScore
    /\ result = NotCalled
    /\ matcher_weights = weights
    /\ StoreIdle

NextDownload ==
    \/ DownloadPdf
    \/ Attempt
    \/ Sleep
    \/ ReturnFalse

\* a call that was started keeps running: the request has timeout=30 on the
\* connection and on every read, the sleep lasts 2 seconds
SpecDownload ==
    /\ InitDownload
    /\ [][NextDownload]_vars
    /\ WF_vars(Attempt)
    /\ WF_vars(Sleep)
    /\ WF_vars(ReturnFalse)

DownloadDone == download.pc = "done"

\* what a call has done so far and, once it is done, what it returned
DownloadContract ==
    /\ download.requests <= download.retries
    /\ download.existed => download.requests = 0
    /\ download.sleeps <= download.failures
    /\ DownloadDone =>
          /\ download.existed => download.returned
          /\ (download.returned /\ ~download.existed) =>
                /\ download.requests = download.failures + 1
                /\ download.sleeps = download.failures
          /\ ~download.returned =>
                /\ download.failures = download.retries
                /\ download.requests = download.retries
                /\ download.sleeps = Max(0, download.retries - 1)

\* C25: download_pdf makes no request and returns True when the file exists;
\* otherwise it makes at most `retries` attempts, returns True at the first
\* successful one, returns False only after all of them failed, sleeps after
\* every failed attempt but the last, and every call terminates.
C25_DownloadRetries ==
    /\ []DownloadContract
    /\ (download.pc \in {"loop", "sleep"}) ~> DownloadDone

\* three failed attempts with two sleeps between them, then False
C25_Witness ==
    /\ DownloadDone
    /\ ~download.returned
    /\ download.retries = 3
    /\ download.requests = 3
    /\ download.sleeps = 2

\* C29: a call returns True only if the file on disk holds the complete
\* content of a successful download.
C29_TrueOnlyForCompleteFile ==
    (DownloadDone /\ download.returned) => disk = "complete"

====
